---- MODULE Spec2Model ----
(***************************************************************************)
(* A model of oxide's Vec<T> (include/oxide.hpp), its draining iterator    *)
(* and the hand-written Option<T> / Option<T&> / Option<const T&>.         *)
(*                                                                         *)
(* A Vec is the sequence of its elements plus its capacity.  Indices are   *)
(* 0-based as in the source; the TLA+ sequence holds index i at i + 1.     *)
(* Every operation records its name, arguments and outcome in `last`, so   *)
(* that what a call returned can be stated about the state after it.       *)
(***************************************************************************)
EXTENDS Integers, Sequences, FiniteSets, TLC

\* ------------------------------------------------------------------ bounds

\* Number of distinct element values.
NumVals ==
    2

\* Longest sequence the clients build (below max_size(): no allocation
\* fails).
MaxLen ==
    3

\* Width of size_t, scaled down; arithmetic on size_t wraps at 2^SizeBits.
SizeBits ==
    3

Vals ==
    1..NumVals

SizeMod ==
    2 ^ SizeBits

\* std::vector<T>::max_size(): PTRDIFF_MAX elements.
MaxSize ==
    (SizeMod \div 2) - 1

\* The index arguments the clients pass: in range, one past the end, beyond
\* it, and the largest size_t (far beyond any capacity).
Indices ==
    (0..(MaxLen + 1)) \cup {SizeMod - 1}

VARIABLES
    vec,      \* the elements of the Vec (the std::vector base), in order
    cap,      \* its capacity()
    iters,    \* the DrainIterator objects, by name
    last,     \* the last call: its name, arguments and outcome
    ub,       \* TRUE once a call had undefined behaviour
    script,   \* push/pop client: the values it pushes
    popped,   \* push/pop client: what its pops returned, in order; drain
              \* loop: what its dereferences yielded, in order
    phase,    \* push/pop client: "push", "pop" or "done"
    opts,     \* the owning Option<T> objects, by name
    cells,    \* the T variables that Option<T&> / Option<const T&> alias
    refs,     \* the Option<T&> and Option<const T&> objects, by name
    fn,       \* the function handed to and_then
    halted,   \* TRUE once panic() ended the program
    tconv,    \* whether T can be constructed from an Option<T>&
    alist     \* the reference list: an abstract list given the same calls

vecVars ==
    <<vec, cap, iters, last, ub, alist>>

\* The Vec's own state and its reference list, without the record of the
\* last call.
vecVars0 ==
    <<vec, cap, iters, ub, alist>>

lifoVars ==
    <<script, popped, phase>>

optVars ==
    <<opts, cells, refs, fn, halted, tconv>>

vars ==
    <<vec, cap, iters, last, ub, script, popped, phase,
      opts, cells, refs, fn, halted, tconv, alist>>

\* --------------------------------------------------------- pure operators

\* An erase that fills the hole from the back, last element first.
eraseUnordered(s, a, b) ==
    [i \in 1..(Len(s) - (b - a)) |->
        IF i <= a THEN s[i] ELSE s[Len(s) - (i - a) + 1]]

\* std::vector::erase(begin() + a, begin() + b): the elements from b on move
\* down to a, the length drops by b - a.
erase(s, a, b) ==
    [i \in 1..(Len(s) - (b - a)) |-> IF i <= a THEN s[i] ELSE s[i + (b - a)]]

\* An insert that puts v after the element at i instead of before it.
vinsertAfter(s, i, v) ==
    LET p == IF i < Len(s) THEN i + 1 ELSE i IN
    [k \in 1..(Len(s) + 1) |->
        IF k <= p THEN s[k] ELSE IF k = p + 1 THEN v ELSE s[k - 1]]

\* std::vector::insert(begin() + i, v).
vinsert(s, i, v) ==
    [k \in 1..(Len(s) + 1) |->
        IF k <= i THEN s[k] ELSE IF k = i + 1 THEN v ELSE s[k - 1]]

\* get with the bound off by one: the last element is reported absent.
getShort(s, index) ==
    IF index + 1 < Len(s)
    THEN [kind |-> "some", val |-> s[index + 1]]
    ELSE [kind |-> "none", val |-> 0]

\* Vec::get: present with the element at index when index < size(), else None.
get(s, index) ==
    IF index < Len(s)
    THEN [kind |-> "some", val |-> s[index + 1]]
    ELSE [kind |-> "none", val |-> 0]

\* A reallocation that keeps the old size as the capacity.
GrowStale(n, len) ==
    {len}

\* The capacities a reallocation for n elements may choose (growth is the
\* library's: exactly n, or the old size doubled).
Grow(n, len) ==
    {c \in {n, 2 * len} : c >= n}

\* A write that lands on the first element whatever the index.
assignFirst(s, index, w) ==
    [s EXCEPT ![1] = w]

\* A write through the T& that get, operator[] or an iter_mut() iterator
\* gave for the element at index: data()[index] = w.
assign(s, index, w) ==
    [s EXCEPT ![index + 1] = w]

\* find's loop from the 1-based position i on: pred is applied to the item;
\* a match is returned at once, the end of the range gives None.  calls
\* counts the applications of pred.
RECURSIVE findFrom(_, _, _)
findFrom(range, pred, i) ==
    IF i > Len(range)
    THEN [kind |-> "none", val |-> 0, calls |-> 0]
    ELSE IF pred[range[i]]
    THEN [kind |-> "some", val |-> range[i], calls |-> 1]
    ELSE [findFrom(range, pred, i + 1) EXCEPT !.calls = @ + 1]

\* A find that goes through the whole range and keeps the last match.
RECURSIVE findLastFrom(_, _, _)
findLastFrom(range, pred, i) ==
    IF i > Len(range)
    THEN [kind |-> "none", val |-> 0, calls |-> 0]
    ELSE LET r == findLastFrom(range, pred, i + 1) IN
         IF r.kind = "none" /\ pred[range[i]]
         THEN [kind |-> "some", val |-> range[i], calls |-> r.calls + 1]
         ELSE [r EXCEPT !.calls = @ + 1]

findLast(range, pred) ==
    findLastFrom(range, pred, 1)

\* find(range, pred): for (auto&& item : range) from begin(range).
find(range, pred) ==
    findFrom(range, pred, 1)

\* A call on the object obj, its outcome, two arguments and a returned value;
\* src is a name the call was given (an object, a variable or a message),
\* ref names the variable a returned reference refers to, msg is the message
\* panic was called with.
OCall(op, obj, kind, a, b, val) ==
    [op |-> op, obj |-> obj, kind |-> kind, a |-> a, b |-> b, val |-> val,
     src |-> "", ref |-> "", msg |-> ""]

Call(op, kind, a, b, val) ==
    OCall(op, "vec", kind, a, b, val)

\* --------------------------------------------------- the reference list
\* An abstract list with the operations of a Vec, written on sequences as
\* wholes; a call the Vec refuses leaves it as it is.

ListPush(l, v) ==
    l \o <<v>>

ListPop(l) ==
    IF l = <<>> THEN l ELSE SubSeq(l, 1, Len(l) - 1)

ListInsert(l, i, v) ==
    IF i <= Len(l)
    THEN SubSeq(l, 1, i) \o <<v>> \o SubSeq(l, i + 1, Len(l))
    ELSE l

ListRemove(l, i) ==
    IF i < Len(l) THEN SubSeq(l, 1, i) \o SubSeq(l, i + 2, Len(l)) ELSE l

ListTruncate(l, k) ==
    IF k < Len(l) THEN SubSeq(l, 1, k) ELSE l

ListDrain(l, a, b) ==
    IF a <= b /\ b <= Len(l)
    THEN SubSeq(l, 1, a) \o SubSeq(l, b + 1, Len(l))
    ELSE l

ListSet(l, i, w) ==
    IF i < Len(l)
    THEN SubSeq(l, 1, i) \o <<w>> \o SubSeq(l, i + 2, Len(l))
    ELSE l

\* ------------------------------------------------------ the drain iterator

DeadIter ==
    [live |-> FALSE, vec_ |-> FALSE, start_ |-> 0, index_ |-> 0, end_ |-> 0,
     orig |-> <<>>]

\* DrainIterator(Vec<T>* vec, size_t start, size_t end): the members are set,
\* then the range is checked.  orig remembers the sequence at construction.
NewIter(s, start, end) ==
    [live |-> TRUE, vec_ |-> TRUE, start_ |-> start, index_ |-> start,
     end_ |-> end, orig |-> s]

\* The range check without its upper bound.
RangeOkNoUpper(start, end, len) ==
    ~(start > end)

RangeOk(start, end, len) ==
    ~(start > end \/ end > len)

\* A moved-from iterator that keeps its vec_.
MovedFromKeeps(other) ==
    other

\* DrainIterator(DrainIterator&& other): the members are copied ...
MovedTo(other) ==
    [other EXCEPT !.live = TRUE]

\* ... and other.vec_ = nullptr.
MovedFrom(other) ==
    [other EXCEPT !.vec_ = FALSE]

\* A destructor that removes only what was stepped over, [start_, index_).
DtorVecConsumed(it, s) ==
    IF it.vec_ THEN erase(s, it.start_, it.index_) ELSE s

\* ~DrainIterator(): the deferred excision, when the iterator still owns it.
DtorVec(it, s) ==
    IF it.vec_ THEN erase(s, it.start_, it.end_) ELSE s

\* operator==(DrainIterator, DrainSentinel) for the sentinel drain returned.
AtSentinel(it) ==
    it.vec_ /\ it.index_ = it.end_

Owning(it) ==
    it.live /\ it.vec_

NoDrain ==
    \A n \in DOMAIN iters : ~Owning(iters[n])

\* ------------------------------------------------- the owning Option<T>

\* An Option<T> object: whether it exists, its m_has_value flag, whether its
\* m_storage holds a constructed T, that T's value (0 when there is none),
\* and what went wrong with the storage so far.
NoOpt ==
    [alive |-> FALSE, m_has_value |-> FALSE, built |-> FALSE, val |-> 0,
     fault |-> "none"]

\* construct_at without its argument: the T is value-initialised.
constructDefault(o, v) ==
    [o EXCEPT !.built = TRUE, !.val = 1,
              !.fault = IF o.built THEN "leak" ELSE @]

\* std::construct_at(ptr(), v); a T constructed over a live T is never
\* destroyed.
construct_at(o, v) ==
    [o EXCEPT !.built = TRUE, !.val = v,
              !.fault = IF o.built THEN "leak" ELSE @]

\* std::destroy_at(ptr()).
destroy_at(o) ==
    [o EXCEPT !.built = FALSE, !.val = 0,
              !.fault = IF o.built THEN @ ELSE "double_destroy"]

\* A reset that destroys without looking at the flag.
resetUnchecked(o) ==
    [destroy_at(o) EXCEPT !.m_has_value = FALSE]

\* A reset that destroys the value and leaves the flag set.
resetKeepsFlag(o) ==
    IF o.m_has_value THEN destroy_at(o) ELSE o

\* Option<T>::reset.
reset(o) ==
    IF o.m_has_value
    THEN [destroy_at(o) EXCEPT !.m_has_value = FALSE]
    ELSE o

\* Option() and Option(none_t): m_storage{} and m_has_value(false).
OptionNone(o) ==
    [o EXCEPT !.alive = TRUE, !.m_has_value = FALSE, !.built = FALSE,
              !.val = 0]

\* Option(U&& value): m_has_value(true), then construct_at.
OptionValue(o, v) ==
    construct_at([OptionNone(o) EXCEPT !.m_has_value = TRUE], v)

\* Option(const Option& other), and the target of Option(Option&& other).
OptionCopy(o, other) ==
    IF other.m_has_value
    THEN [construct_at(OptionNone(o), other.val) EXCEPT !.m_has_value = TRUE]
    ELSE OptionNone(o)

\* The source of a move: its T is moved from (left holding w), then reset.
MoveSource(other, w) ==
    IF other.m_has_value
    THEN reset([other EXCEPT !.val = w])
    ELSE other

\* ~Option(): reset(); a T still in the storage then is never destroyed.
OptionDtor(o) ==
    LET r == reset(o) IN
    [NoOpt EXCEPT !.fault = IF r.built THEN "leak" ELSE r.fault]

\* operator=(const Option& other) for this != &other, and the target of
\* operator=(Option&& other).
AssignFrom(o, other) ==
    LET r == reset(o) IN
    IF other.m_has_value
    THEN [construct_at(r, other.val) EXCEPT !.m_has_value = TRUE]
    ELSE r

\* operator=(U&& value).
AssignValue(o, v) ==
    [construct_at(reset(o), v) EXCEPT !.m_has_value = TRUE]

\* The T that T(o) makes of an Option<T>& o when T has such a conversion:
\* for bool it is o.has_value(), through explicit operator bool(); false and
\* true are the values 1 and 2.
FromOption(o) ==
    IF o.m_has_value THEN 2 ELSE 1

\* destroy_at calls between the states o and r of one Option, as the storage
\* shows them: a T that is gone, or a call on storage that held none.
DestroyCalls(o, r) ==
    IF (o.built /\ ~r.built) \/ (r.fault = "double_destroy" /\ o.fault = "none")
    THEN 1
    ELSE 0

\* What an accessor gives: a panic with its message, or the value.
Panicked(msg) ==
    [kind |-> "panic", val |-> 0, msg |-> msg]

Returned(v) ==
    [kind |-> "ok", val |-> v, msg |-> ""]

\* A value() without the test, as operator* is.
valueUnchecked(o) ==
    Returned(o.val)

\* Option<T>::value (the four overloads).
value(o) ==
    IF ~o.m_has_value
    THEN Panicked("called Option::value() on None")
    ELSE Returned(o.val)

\* Option<T>::operator* (the four overloads): *ptr(), with no test of the
\* flag.
operator_star(o) ==
    Returned(o.val)

\* Option<T>::operator-> (both overloads): ptr(), with no test of the flag;
\* the caller reads the T through it.
operator_arrow(o) ==
    Returned(o.val)

\* Option<T>::unwrap: value().
unwrap(o) ==
    value(o)

\* Option<T>::expect.
expect(o, msg) ==
    IF ~o.m_has_value THEN Panicked(msg) ELSE Returned(o.val)

\* An unwrap_or that gives the default whatever the Option holds.
unwrap_orDefault(o, default_value) ==
    default_value

\* Option<T>::unwrap_or (both overloads).
unwrap_or(o, default_value) ==
    IF o.m_has_value THEN o.val ELSE default_value

\* What a function handed to and_then returns: an Option<U>.
NoResult ==
    [kind |-> "none", val |-> 0]

Results ==
    {NoResult} \cup {[kind |-> "some", val |-> v] : v \in Vals}

\* An and_then that calls f before it looks at the flag.
and_thenEager(o, f) ==
    IF ~o.m_has_value
    THEN [kind |-> "none", val |-> 0, calls |-> 1, arg |-> 0]
    ELSE [kind |-> f[o.val].kind, val |-> f[o.val].val, calls |-> 1,
          arg |-> o.val]

\* Option<T>::and_then (both overloads): absent, Option<U>(_none) without a
\* call; present, the result of f on value().
and_then(o, f) ==
    IF ~o.m_has_value
    THEN [kind |-> "none", val |-> 0, calls |-> 0, arg |-> 0]
    ELSE [kind |-> f[o.val].kind, val |-> f[o.val].val, calls |-> 1,
          arg |-> o.val]

\* ------------------------------------- Option<T&> and Option<const T&>

\* An Option<T&> (const = FALSE) or Option<const T&> object: whether it
\* exists, and m_ptr, which names the variable it aliases or is "null".
NoRef(const) ==
    [const |-> const, m_ptr |-> "null", alive |-> FALSE]

\* Option() and Option(none_t): m_ptr = nullptr.
NullRef(const) ==
    [const |-> const, m_ptr |-> "null", alive |-> TRUE]

\* Option(T& ref) and Some(T&): m_ptr(&ref).
RefTo(const, x) ==
    [const |-> const, m_ptr |-> x, alive |-> TRUE]

\* Option<T&>::value and Option<const T&>::value; mem holds the aliased
\* variables.
ref_value(r, mem) ==
    IF r.m_ptr = "null"
    THEN Panicked("called Option::value() on None")
    ELSE Returned(mem[r.m_ptr])

\* unwrap(): value().
ref_unwrap(r, mem) ==
    ref_value(r, mem)

\* expect(msg).
ref_expect(r, mem, msg) ==
    IF r.m_ptr = "null" THEN Panicked(msg) ELSE Returned(mem[r.m_ptr])

\* unwrap_or(default_value): the variable that the returned reference
\* refers to.
ref_unwrap_or(r, default_value) ==
    IF r.m_ptr # "null" THEN r.m_ptr ELSE default_value

\* Option<T&>::and_then; mem holds the aliased variables.
ref_and_then(r, mem, f) ==
    IF r.m_ptr = "null"
    THEN [kind |-> "none", val |-> 0, calls |-> 0, arg |-> 0]
    ELSE [kind |-> f[mem[r.m_ptr]].kind, val |-> f[mem[r.m_ptr]].val,
          calls |-> 1, arg |-> mem[r.m_ptr]]

\* Option<const T&>::and_then.
cref_and_then(r, mem, f) ==
    IF r.m_ptr = "null"
    THEN [kind |-> "none", val |-> 0, calls |-> 0, arg |-> 0]
    ELSE [kind |-> f[mem[r.m_ptr]].kind, val |-> f[mem[r.m_ptr]].val,
          calls |-> 1, arg |-> mem[r.m_ptr]]

\* ---------------------------------------------------------------- actions

\* Vec::push.
Push(v) ==
    /\ Len(vec) < MaxLen
    /\ vec' = Append(vec, v)
    /\ IF Len(vec) < cap
       THEN cap' = cap
       ELSE cap' \in Grow(Len(vec) + 1, Len(vec))
    /\ last' = Call("push", "ok", v, 0, 0)
    /\ UNCHANGED <<iters, ub>>

\* A pop that takes the front element.
PopFront ==
    /\ IF Len(vec) = 0
       THEN /\ last' = Call("pop", "none", 0, 0, 0)
            /\ vec' = vec
       ELSE /\ last' = Call("pop", "some", 0, 0, vec[1])
            /\ vec' = SubSeq(vec, 2, Len(vec))
    /\ UNCHANGED <<cap, iters, ub>>

\* A pop that gives the freed slot back (shrinks the capacity to the size).
PopShrink ==
    /\ IF Len(vec) = 0
       THEN /\ last' = Call("pop", "none", 0, 0, 0)
            /\ vec' = vec
       ELSE /\ last' = Call("pop", "some", 0, 0, vec[Len(vec)])
            /\ vec' = SubSeq(vec, 1, Len(vec) - 1)
    /\ cap' = Len(vec')
    /\ UNCHANGED <<iters, ub>>

\* Vec::pop.
Pop ==
    /\ IF Len(vec) = 0
       THEN /\ last' = Call("pop", "none", 0, 0, 0)
            /\ vec' = vec
       ELSE /\ last' = Call("pop", "some", 0, 0, vec[Len(vec)])
            /\ vec' = SubSeq(vec, 1, Len(vec) - 1)
    /\ UNCHANGED <<cap, iters, ub>>

\* Vec::get (the result is read, nothing is written through it).
Get(index) ==
    /\ last' = Call("get", get(vec, index).kind, index, 0, get(vec, index).val)
    /\ UNCHANGED <<vec, cap, iters, ub>>

\* An operator[] that clamps an out-of-range index to the last element.
IndexClamp(index) ==
    /\ IF Len(vec) = 0
       THEN last' = Call("index", "out_of_range", index, 0, 0)
       ELSE IF index >= Len(vec)
       THEN last' = Call("index", "ok", index, 0, vec[Len(vec)])
       ELSE last' = Call("index", "ok", index, 0, get(vec, index).val)
    /\ UNCHANGED <<vec, cap, iters, ub>>

\* Vec::operator[] (the reference is read).
Index(index) ==
    /\ IF get(vec, index).kind = "none"
       THEN last' = Call("index", "out_of_range", index, 0, 0)
       ELSE last' = Call("index", "ok", index, 0, get(vec, index).val)
    /\ UNCHANGED <<vec, cap, iters, ub>>

\* if (auto val = v.get(index)) val->get() = w;
GetWrite(index, w) ==
    /\ IF get(vec, index).kind = "none"
       THEN /\ last' = Call("get_write", "none", index, w, 0)
            /\ vec' = vec
       ELSE /\ last' = Call("get_write", "some", index, w, 0)
            /\ vec' = assign(vec, index, w)
    /\ UNCHANGED <<cap, iters, ub>>

\* v[index] = w.
IndexWrite(index, w) ==
    /\ IF get(vec, index).kind = "none"
       THEN /\ last' = Call("index_write", "out_of_range", index, w, 0)
            /\ vec' = vec
       ELSE /\ last' = Call("index_write", "ok", index, w, 0)
            /\ vec' = assign(vec, index, w)
    /\ UNCHANGED <<cap, iters, ub>>

\* for (auto& e : v.iter_mut()) { if (<e is the element at index>) e = w; }
\* the loop ends at end() without a write when there is no such element.
IterMutWrite(index, w) ==
    /\ IF index < Len(vec)
       THEN /\ last' = Call("iter_mut_write", "ok", index, w, 0)
            /\ vec' = assign(vec, index, w)
       ELSE /\ last' = Call("iter_mut_write", "none", index, w, 0)
            /\ vec' = vec
    /\ UNCHANGED <<cap, iters, ub>>

\* find(v.iter(), fn): the range is the Vec's elements in order, read
\* through const iterators; a is the number of times fn was applied.
Find ==
    /\ LET r == find(vec, fn) IN
       last' = Call("find", r.kind, r.calls, 0, r.val)
    /\ UNCHANGED <<vec, cap, iters, ub>>

\* Vec::insert.
Insert(index, v) ==
    /\ Len(vec) < MaxLen
    /\ IF index > Len(vec)
       THEN /\ last' = Call("insert", "out_of_range", index, v, 0)
            /\ UNCHANGED <<vec, cap>>
       ELSE /\ vec' = vinsert(vec, index, v)
            /\ IF Len(vec) < cap
               THEN cap' = cap
               ELSE cap' \in Grow(Len(vec) + 1, Len(vec))
            /\ last' = Call("insert", "ok", index, v, 0)
    /\ UNCHANGED <<iters, ub>>

\* A remove that fills the hole with the last element (swap_remove).
RemoveSwap(index) ==
    /\ IF index >= Len(vec)
       THEN /\ last' = Call("remove", "out_of_range", index, 0, 0)
            /\ vec' = vec
       ELSE /\ last' = Call("remove", "ok", index, 0, get(vec, index).val)
            /\ vec' = SubSeq([vec EXCEPT ![index + 1] = vec[Len(vec)]],
                             1, Len(vec) - 1)
    /\ UNCHANGED <<cap, iters, ub>>

\* Vec::remove.
Remove(index) ==
    /\ IF index >= Len(vec)
       THEN /\ last' = Call("remove", "out_of_range", index, 0, 0)
            /\ vec' = vec
       ELSE /\ last' = Call("remove", "ok", index, 0, get(vec, index).val)
            /\ vec' = erase(vec, index, index + 1)
    /\ UNCHANGED <<cap, iters, ub>>

\* A truncate that keeps the last len elements instead of the first.
TruncateFront(len) ==
    /\ IF len < Len(vec)
       THEN vec' = erase(vec, 0, Len(vec) - len)
       ELSE vec' = vec
    /\ last' = Call("truncate", "ok", len, Len(vec), 0)
    /\ UNCHANGED <<cap, iters, ub>>

\* Vec::truncate; b records size() before the call.
Truncate(len) ==
    /\ IF len < Len(vec)
       THEN vec' = erase(vec, len, Len(vec))
       ELSE vec' = vec
    /\ last' = Call("truncate", "ok", len, Len(vec), 0)
    /\ UNCHANGED <<cap, iters, ub>>

\* Vec::clear.
Clear ==
    /\ vec' = <<>>
    /\ last' = Call("clear", "ok", 0, 0, 0)
    /\ UNCHANGED <<cap, iters, ub>>

\* Vec::reserve: size() + additional is computed in size_t.
Reserve(additional) ==
    LET n == (Len(vec) + additional) % SizeMod IN
    /\ IF n > MaxSize
       THEN /\ last' = Call("reserve", "length_error", additional, 0, 0)
            /\ cap' = cap
       ELSE /\ last' = Call("reserve", "ok", additional, 0, 0)
            /\ cap' = IF n > cap THEN n ELSE cap
    /\ UNCHANGED <<vec, iters, ub>>

\* Vec::shrink_to_fit: a non-binding request.
ShrinkToFit ==
    /\ cap' \in {cap, Len(vec)}
    /\ last' = Call("shrink_to_fit", "ok", 0, 0, 0)
    /\ UNCHANGED <<vec, iters, ub>>

\* Vec::drain(range) into the iterator object n: the range is checked; the
\* DrainIterator temporary is constructed (checking again), moved into the
\* returned subrange, and the moved-from temporary is destroyed.
Drain(n, start, end) ==
    /\ ~iters[n].live
    /\ IF ~RangeOk(start, end, Len(vec))
       THEN /\ last' = Call("drain", "out_of_range", start, end, 0)
            /\ UNCHANGED <<vec, iters>>
       ELSE LET tmp == NewIter(vec, start, end) IN
            /\ RangeOk(tmp.start_, tmp.end_, Len(vec))
            /\ iters' = [iters EXCEPT ![n] = MovedTo(tmp)]
            /\ vec' = DtorVec(MovedFrom(tmp), vec)
            /\ last' = Call("drain", "ok", start, end, 0)
    /\ UNCHANGED <<cap, ub>>

\* DrainIterator::operator*: (*vec_)[index_] is Vec's checked operator[]; the
\* caller moves the element out, which leaves it valid but unspecified.
Deref(n) ==
    /\ Owning(iters[n])
    /\ LET i == iters[n].index_ IN
       IF get(vec, i).kind = "none"
       THEN /\ last' = Call("deref", "out_of_range", i, 0, 0)
            /\ vec' = vec
       ELSE /\ last' = Call("deref", "ok", i, 0, get(vec, i).val)
            /\ \E w \in Vals : vec' = [vec EXCEPT ![i + 1] = w]
    /\ UNCHANGED <<cap, iters, ub>>

\* An operator++ that steps over two elements.
AdvanceTwo(n) ==
    /\ iters[n].live
    /\ iters[n].index_ < MaxLen + 1
    /\ iters' = [iters EXCEPT ![n].index_ = @ + 2]
    /\ last' = Call("advance", "ok", iters[n].index_ + 2, 0, 0)
    /\ UNCHANGED <<vec, cap, ub>>

\* DrainIterator::operator++ (prefix).
Advance(n) ==
    /\ iters[n].live
    /\ iters[n].index_ < MaxLen + 1
    /\ iters' = [iters EXCEPT ![n].index_ = @ + 1]
    /\ last' = Call("advance", "ok", iters[n].index_ + 1, 0, 0)
    /\ UNCHANGED <<vec, cap, ub>>

\* ~DrainIterator() of the iterator object n.  Erasing past the end of the
\* vector is undefined: the vector may be left as it is, emptied, or cut at
\* start_ (at its end, when start_ lies beyond it).
DropIter(n) ==
    /\ iters[n].live
    /\ LET it == iters[n] IN
       IF it.vec_ /\ it.end_ > Len(vec)
       THEN /\ ub' = TRUE
            /\ vec' \in {vec, <<>>,
                         SubSeq(vec, 1, IF it.start_ < Len(vec)
                                        THEN it.start_ ELSE Len(vec))}
            /\ last' = Call("drop", "undefined", it.start_, it.end_,
                            it.index_ - it.start_)
       ELSE /\ ub' = ub
            /\ vec' = DtorVec(it, vec)
            /\ last' = Call("drop", IF it.vec_ THEN "erased" ELSE "moved_from",
                            it.start_, it.end_, it.index_ - it.start_)
    /\ iters' = [iters EXCEPT ![n] = DeadIter]
    /\ UNCHANGED cap

\* DrainIterator n(std::move(m)): the iterator object n is move-constructed
\* from the iterator object m.
MoveCtor(n, m) ==
    /\ ~iters[n].live /\ iters[m].live
    /\ iters' = [iters EXCEPT ![n] = MovedTo(iters[m]),
                              ![m] = MovedFrom(iters[m])]
    /\ last' = [OCall("move_ctor", n, "ok", iters[m].start_, iters[m].end_, 0)
                EXCEPT !.src = m]
    /\ UNCHANGED <<vec, cap, ub>>

\* n = std::move(m): nothing when this == &other; otherwise
\* this->~DrainIterator() runs (the excision of n's own drain, when n still
\* owns one; undefined when its range has come to lie past the end, as in
\* the destructor), then m's members are taken over and m.vec_ = nullptr.
\* a and b record the range n had before.
MoveAssign(n, m) ==
    /\ iters[n].live /\ iters[m].live
    /\ IF n = m
       THEN /\ UNCHANGED <<vec, iters, ub>>
            /\ last' = [OCall("move_assign", n, "self", iters[n].start_,
                              iters[n].end_, 0) EXCEPT !.src = m]
       ELSE LET it == iters[n] IN
            /\ IF it.vec_ /\ it.end_ > Len(vec)
               THEN /\ ub' = TRUE
                    /\ vec' \in {vec, <<>>,
                                 SubSeq(vec, 1, IF it.start_ < Len(vec)
                                                THEN it.start_ ELSE Len(vec))}
                    /\ last' = [OCall("move_assign", n, "undefined",
                                      it.start_, it.end_, 0) EXCEPT !.src = m]
               ELSE /\ ub' = ub
                    /\ vec' = DtorVec(it, vec)
                    /\ last' = [OCall("move_assign", n,
                                      IF it.vec_ THEN "erased" ELSE "moved_from",
                                      it.start_, it.end_, 0) EXCEPT !.src = m]
            /\ iters' = [iters EXCEPT ![n] = MovedTo(iters[m]),
                                      ![m] = MovedFrom(iters[m])]
    /\ UNCHANGED cap

\* ------------------------------------------------------- Option actions

\* panic(msg): the program ends.
panic ==
    halted' = TRUE

\* Option() / Option(none_t) for the object x.
OptNone(x) ==
    /\ ~halted /\ ~opts[x].alive
    /\ opts' = [opts EXCEPT ![x] = OptionNone(@)]
    /\ last' = OCall("ctor_none", x, "ok", 0, 0, 0)
    /\ UNCHANGED <<cells, refs, fn, tconv, halted>>

\* Option(U&& value) for the object x.
OptValue(x, v) ==
    /\ ~halted /\ ~opts[x].alive
    /\ opts' = [opts EXCEPT ![x] = OptionValue(@, v)]
    /\ last' = OCall("ctor_value", x, "ok", v, 0, 0)
    /\ UNCHANGED <<cells, refs, fn, tconv, halted>>

\* Some(T&& value): returns Option<T>(std::forward<T>(value)), here as x.
SomeValue(x, v) ==
    /\ ~halted /\ ~opts[x].alive
    /\ opts' = [opts EXCEPT ![x] = OptionValue(@, v)]
    /\ last' = OCall("some", x, "ok", v, 0, 0)
    /\ UNCHANGED <<cells, refs, fn, tconv, halted>>

\* Option<T> x(y): y is named as a const Option (c) or as a non-const lvalue.
\* For a non-const lvalue and a T constructible from Option<T>&, overload
\* resolution takes Option(U&&) with U = Option&, an exact match, over
\* Option(const Option&): x is made present, holding T(y).  Otherwise x is
\* copy-constructed.  a counts the reads of y's storage, b is 1 when
\* Option(U&&) was taken.
OptCopy(x, y) ==
    /\ ~halted /\ ~opts[x].alive /\ opts[y].alive
    /\ \E c \in BOOLEAN :
          IF tconv /\ ~c
          THEN /\ opts' = [opts EXCEPT ![x] = OptionValue(@, FromOption(opts[y]))]
               /\ last' = [OCall("ctor_copy", x, "ok", 0, 1, 0) EXCEPT !.src = y]
          ELSE /\ opts' = [opts EXCEPT ![x] = OptionCopy(@, opts[y])]
               /\ last' = [OCall("ctor_copy", x, "ok",
                                 IF opts[y].m_has_value THEN 1 ELSE 0, 0, 0)
                           EXCEPT !.src = y]
    /\ UNCHANGED <<cells, refs, fn, tconv, halted>>

\* Option(Option&& other): x is constructed from y, which is then reset.
OptMove(x, y) ==
    /\ ~halted /\ ~opts[x].alive /\ opts[y].alive
    /\ \E w \in Vals :
          opts' = [opts EXCEPT ![x] = OptionCopy(@, opts[y]),
                               ![y] = MoveSource(@, w)]
    /\ last' = [OCall("ctor_move", x, "ok",
                      IF opts[y].m_has_value THEN 1 ELSE 0, 0, 0)
                EXCEPT !.src = y]
    /\ UNCHANGED <<cells, refs, fn, tconv, halted>>

\* ~Option() of the object x.
OptDtor(x) ==
    /\ ~halted /\ opts[x].alive
    /\ opts' = [opts EXCEPT ![x] = OptionDtor(@)]
    /\ last' = OCall("dtor", x, "ok", 0, 0, 0)
    /\ UNCHANGED <<cells, refs, fn, tconv, halted>>

\* x = y: for y named as a non-const lvalue and a T constructible from
\* Option<T>&, overload resolution takes operator=(U&&) with U = Option&:
\* x is reset and then holds T(y), y read after the reset.  Otherwise
\* operator=(const Option&) runs; nothing happens when this == &other.
OptAssignCopy(x, y) ==
    /\ ~halted /\ opts[x].alive /\ opts[y].alive
    /\ \E c \in BOOLEAN :
          IF tconv /\ ~c
          THEN /\ opts' = [opts EXCEPT ![x] =
                             AssignValue(@, FromOption(IF x = y THEN reset(@)
                                                       ELSE opts[y]))]
               /\ last' = [OCall("assign_copy", x, "ok", 0, 1, 0)
                           EXCEPT !.src = y]
          ELSE /\ IF x = y
                  THEN opts' = opts
                  ELSE opts' = [opts EXCEPT ![x] = AssignFrom(@, opts[y])]
               /\ last' = [OCall("assign_copy", x, "ok",
                                 IF x # y /\ opts[y].m_has_value THEN 1 ELSE 0,
                                 0, 0)
                           EXCEPT !.src = y]
    /\ UNCHANGED <<cells, refs, fn, tconv, halted>>

\* x = std::move(y) (operator=(Option&&)).
OptAssignMove(x, y) ==
    /\ ~halted /\ opts[x].alive /\ opts[y].alive
    /\ IF x = y
       THEN opts' = opts
       ELSE \E w \in Vals :
               opts' = [opts EXCEPT ![x] = AssignFrom(@, opts[y]),
                                    ![y] = MoveSource(@, w)]
    /\ last' = [OCall("assign_move", x, "ok",
                      IF x # y /\ opts[y].m_has_value THEN 1 ELSE 0, 0, 0)
                EXCEPT !.src = y]
    /\ UNCHANGED <<cells, refs, fn, tconv, halted>>

\* x = v (operator=(U&&)).
OptAssignValue(x, v) ==
    /\ ~halted /\ opts[x].alive
    /\ opts' = [opts EXCEPT ![x] = AssignValue(@, v)]
    /\ last' = OCall("assign_value", x, "ok", v, 0, 0)
    /\ UNCHANGED <<cells, refs, fn, tconv, halted>>

\* x = x.value() (operator=(U&&) with U = T&): value() panics on an absent
\* Option; otherwise reset() destroys the held T and construct_at then
\* copies from that destroyed T, which is undefined: the copy holds any
\* value.
OptAssignOwnValue(x) ==
    /\ ~halted /\ opts[x].alive
    /\ IF ~opts[x].m_has_value
       THEN /\ panic
            /\ UNCHANGED <<opts, ub>>
            /\ last' = OCall("assign_own_value", x, "panic", 0, 0, 0)
       ELSE /\ halted' = halted
            /\ ub' = TRUE
            /\ \E w \in Vals :
                  /\ opts' = [opts EXCEPT ![x] = AssignValue(@, w)]
                  /\ last' = OCall("assign_own_value", x, "undefined",
                                   opts[x].val, 0, w)
    /\ UNCHANGED <<cells, refs, fn, tconv>>

\* x = _none (operator=(none_t)).
OptAssignNone(x) ==
    /\ ~halted /\ opts[x].alive
    /\ opts' = [opts EXCEPT ![x] = reset(@)]
    /\ last' = OCall("assign_none", x, "ok", 0, 0, 0)
    /\ UNCHANGED <<cells, refs, fn, tconv, halted>>

\* x.reset(); a counts the destroy_at calls.
OptReset(x) ==
    /\ ~halted /\ opts[x].alive
    /\ opts' = [opts EXCEPT ![x] = reset(@)]
    /\ last' = OCall("reset", x, "ok",
                     DestroyCalls(opts[x], reset(opts[x])), 0, 0)
    /\ UNCHANGED <<cells, refs, fn, tconv, halted>>

\* What the caller of an accessor sees of its result r: the panic, or the
\* value returned.
Outcome(op, x, r) ==
    [OCall(op, x, r.kind, 0, 0, r.val) EXCEPT !.msg = r.msg]

\* x.value(), the result read.
OptValueRead(x) ==
    /\ ~halted /\ opts[x].alive
    /\ IF value(opts[x]).kind = "panic"
       THEN panic
       ELSE halted' = halted
    /\ last' = Outcome("value", x, value(opts[x]))
    /\ UNCHANGED <<opts, cells, refs, fn, tconv>>

\* x.value() = w: the reference returned is written through.
OptValueWrite(x, w) ==
    /\ ~halted /\ opts[x].alive
    /\ IF ~opts[x].m_has_value
       THEN /\ panic
            /\ opts' = opts
            /\ last' = OCall("value_write", x, "panic", w, 0, 0)
       ELSE /\ halted' = halted
            /\ opts' = [opts EXCEPT ![x].val = w]
            /\ last' = OCall("value_write", x, "ok", w, 0, 0)
    /\ UNCHANGED <<cells, refs, fn, tconv>>

\* *x, the result read.  On an absent Option the reference is into storage
\* that holds no T; reading it is undefined and gives whatever bytes are
\* there: zeros, or what a T destroyed earlier left behind.
OptDeref(x) ==
    /\ ~halted /\ opts[x].alive
    /\ IF opts[x].m_has_value
       THEN /\ ub' = ub
            /\ last' = [Outcome("deref", x, operator_star(opts[x]))
                        EXCEPT !.ref = "m_storage"]
       ELSE /\ ub' = TRUE
            /\ \E w \in Vals \cup {0} :
                  last' = [OCall("deref", x, "undefined", 0, 0, w)
                           EXCEPT !.ref = "m_storage"]
    /\ UNCHANGED <<opts, cells, refs, fn, tconv, halted>>

\* x->member, read through the pointer operator-> returned; as for *x.
OptArrow(x) ==
    /\ ~halted /\ opts[x].alive
    /\ IF opts[x].m_has_value
       THEN /\ ub' = ub
            /\ last' = [Outcome("arrow", x, operator_arrow(opts[x]))
                        EXCEPT !.ref = "m_storage"]
       ELSE /\ ub' = TRUE
            /\ \E w \in Vals \cup {0} :
                  last' = [OCall("arrow", x, "undefined", 0, 0, w)
                           EXCEPT !.ref = "m_storage"]
    /\ UNCHANGED <<opts, cells, refs, fn, tconv, halted>>

\* x.unwrap(), the result read.
OptUnwrap(x) ==
    /\ ~halted /\ opts[x].alive
    /\ IF unwrap(opts[x]).kind = "panic"
       THEN panic
       ELSE halted' = halted
    /\ last' = Outcome("unwrap", x, unwrap(opts[x]))
    /\ UNCHANGED <<opts, cells, refs, fn, tconv>>

\* x.expect(msg), the result read.
OptExpect(x, msg) ==
    /\ ~halted /\ opts[x].alive
    /\ IF expect(opts[x], msg).kind = "panic"
       THEN panic
       ELSE halted' = halted
    /\ last' = [Outcome("expect", x, expect(opts[x], msg)) EXCEPT !.src = msg]
    /\ UNCHANGED <<opts, cells, refs, fn, tconv>>

\* x.unwrap_or(d) on an lvalue: the T returned is a copy.
OptUnwrapOr(x, d) ==
    /\ ~halted /\ opts[x].alive
    /\ last' = OCall("unwrap_or", x, "ok", d, 0, unwrap_or(opts[x], d))
    /\ UNCHANGED <<opts, cells, refs, fn, tconv, halted>>

\* std::move(x).unwrap_or(d): the T returned is moved out of the held one,
\* which is left valid but unspecified.
OptUnwrapOrRv(x, d) ==
    /\ ~halted /\ opts[x].alive
    /\ last' = OCall("unwrap_or_rv", x, "ok", d, 0, unwrap_or(opts[x], d))
    /\ IF opts[x].m_has_value
       THEN \E w \in Vals : opts' = [opts EXCEPT ![x].val = w]
       ELSE opts' = opts
    /\ UNCHANGED <<cells, refs, fn, tconv, halted>>

\* std::move(x).and_then(fn): fn receives T&& and may move the value out,
\* which leaves it valid but unspecified.
AndThenRv(x) ==
    /\ ~halted /\ opts[x].alive
    /\ LET r == and_then(opts[x], fn) IN
       /\ last' = OCall("and_then_rv", x, r.kind, r.calls, r.arg, r.val)
       /\ IF r.calls = 0
          THEN opts' = opts
          ELSE \E w \in Vals : opts' = [opts EXCEPT ![x].val = w]
    /\ UNCHANGED <<cells, refs, fn, tconv, halted>>

\* x.and_then(fn) on a const Option: fn receives const T&.
AndThenConst(x) ==
    /\ ~halted /\ opts[x].alive
    /\ LET r == and_then(opts[x], fn) IN
       last' = OCall("and_then_const", x, r.kind, r.calls, r.arg, r.val)
    /\ UNCHANGED <<opts, cells, refs, fn, tconv, halted>>

\* r.and_then(fn) on an Option<T&>: fn receives T& and may write to it.
RefAndThen(r) ==
    /\ ~halted /\ ~refs[r].const
    /\ LET res == ref_and_then(refs[r], cells, fn) IN
       /\ last' = OCall("ref_and_then", r, res.kind, res.calls, res.arg,
                        res.val)
       /\ IF res.calls = 0
          THEN cells' = cells
          ELSE \E w \in Vals : cells' = [cells EXCEPT ![refs[r].m_ptr] = w]
    /\ UNCHANGED <<opts, refs, fn, tconv, halted>>

\* r.and_then(fn) on an Option<const T&>: fn receives const T&.
CrefAndThen(r) ==
    /\ ~halted /\ refs[r].const
    /\ LET res == cref_and_then(refs[r], cells, fn) IN
       last' = OCall("cref_and_then", r, res.kind, res.calls, res.arg,
                     res.val)
    /\ UNCHANGED <<opts, cells, refs, fn, tconv, halted>>

\* -------------------------------- Option<T&> and Option<const T&> actions

\* Option<T&> r; or Option<const T&> r;
RefNone(r) ==
    /\ ~halted /\ ~refs[r].alive
    /\ refs' = [refs EXCEPT ![r] = NullRef(@.const)]
    /\ last' = OCall("ref_none", r, "ok", 0, 0, 0)
    /\ UNCHANGED <<opts, cells, fn, halted, tconv>>

\* Option<T&> r = Some(x); or Option<const T&> r(x);
RefSome(r, x) ==
    /\ ~halted /\ ~refs[r].alive
    /\ refs' = [refs EXCEPT ![r] = RefTo(@.const, x)]
    /\ last' = [OCall("ref_some", r, "ok", 0, 0, 0) EXCEPT !.src = x]
    /\ UNCHANGED <<opts, cells, fn, halted, tconv>>

\* A copy that aliases another variable, to which it copies the referent.
RefCopyDeep(r, s) ==
    /\ ~halted /\ ~refs[r].alive /\ refs[s].alive
    /\ refs[r].const = refs[s].const
    /\ IF refs[s].m_ptr = "null"
       THEN /\ refs' = [refs EXCEPT ![r] = refs[s]]
            /\ cells' = cells
       ELSE \E y \in DOMAIN cells \ {refs[s].m_ptr} :
               /\ refs' = [refs EXCEPT ![r] = RefTo(@.const, y)]
               /\ cells' = [cells EXCEPT ![y] = cells[refs[s].m_ptr]]
    /\ last' = [OCall("ref_copy", r, "ok", 0, 0, 0) EXCEPT !.src = s]
    /\ UNCHANGED <<opts, fn, halted, tconv>>

\* Option<T&> r = s; (Option(const Option&) = default: m_ptr is copied).
RefCopy(r, s) ==
    /\ ~halted /\ ~refs[r].alive /\ refs[s].alive
    /\ refs[r].const = refs[s].const
    /\ refs' = [refs EXCEPT ![r] = refs[s]]
    /\ last' = [OCall("ref_copy", r, "ok", 0, 0, 0) EXCEPT !.src = s]
    /\ UNCHANGED <<opts, cells, fn, halted, tconv>>

\* r = s; (operator=(const Option&) = default).
RefAssign(r, s) ==
    /\ ~halted /\ refs[r].alive /\ refs[s].alive
    /\ refs[r].const = refs[s].const
    /\ refs' = [refs EXCEPT ![r] = refs[s]]
    /\ last' = [OCall("ref_assign", r, "ok", 0, 0, 0) EXCEPT !.src = s]
    /\ UNCHANGED <<opts, cells, fn, halted, tconv>>

\* The end of r's lifetime: the implicit destructor does nothing.
RefDtor(r) ==
    /\ ~halted /\ refs[r].alive
    /\ refs' = [refs EXCEPT ![r] = NoRef(@.const)]
    /\ last' = OCall("ref_dtor", r, "ok", 0, 0, 0)
    /\ UNCHANGED <<opts, cells, fn, halted, tconv>>

\* r.value(), the result read.
RefValue(r) ==
    /\ ~halted /\ refs[r].alive
    /\ IF ref_value(refs[r], cells).kind = "panic"
       THEN panic
       ELSE halted' = halted
    /\ last' = [Outcome("ref_value", r, ref_value(refs[r], cells))
                EXCEPT !.ref = refs[r].m_ptr]
    /\ UNCHANGED <<opts, cells, refs, fn, tconv>>

\* r.unwrap(), the result read.
RefUnwrap(r) ==
    /\ ~halted /\ refs[r].alive
    /\ IF ref_unwrap(refs[r], cells).kind = "panic"
       THEN panic
       ELSE halted' = halted
    /\ last' = [Outcome("ref_unwrap", r, ref_unwrap(refs[r], cells))
                EXCEPT !.ref = refs[r].m_ptr]
    /\ UNCHANGED <<opts, cells, refs, fn, tconv>>

\* r.expect(msg), the result read.
RefExpect(r, msg) ==
    /\ ~halted /\ refs[r].alive
    /\ IF ref_expect(refs[r], cells, msg).kind = "panic"
       THEN panic
       ELSE halted' = halted
    /\ last' = [Outcome("ref_expect", r, ref_expect(refs[r], cells, msg))
                EXCEPT !.src = msg, !.ref = refs[r].m_ptr]
    /\ UNCHANGED <<opts, cells, refs, fn, tconv>>

\* r.unwrap_or(d) for a variable d, the T referred to by the result read.
RefUnwrapOr(r, d) ==
    /\ ~halted /\ refs[r].alive
    /\ last' = [OCall("ref_unwrap_or", r, "ok", 0, 0,
                      cells[ref_unwrap_or(refs[r], d)])
                EXCEPT !.src = d, !.ref = ref_unwrap_or(refs[r], d)]
    /\ UNCHANGED <<opts, cells, refs, fn, halted, tconv>>

\* r.unwrap_or(x = w): the argument is evaluated before the call, so x is
\* assigned whatever r holds; unwrap_or then returns a reference to r's
\* referent or to x, and the T it refers to is read.
RefUnwrapOrAssign(r, x, w) ==
    /\ ~halted /\ refs[r].alive
    /\ cells' = [cells EXCEPT ![x] = w]
    /\ last' = [OCall("ref_unwrap_or_assign", r, "ok", w, 0,
                      cells'[ref_unwrap_or(refs[r], x)])
                EXCEPT !.src = x, !.ref = ref_unwrap_or(refs[r], x)]
    /\ UNCHANGED <<opts, refs, fn, halted, tconv>>

\* r.value() = w on an Option<T&>.
RefValueWrite(r, w) ==
    /\ ~halted /\ refs[r].alive /\ ~refs[r].const
    /\ IF ref_value(refs[r], cells).kind = "panic"
       THEN /\ panic
            /\ cells' = cells
            /\ last' = [Outcome("ref_value_write", r, ref_value(refs[r], cells))
                        EXCEPT !.a = w]
       ELSE /\ halted' = halted
            /\ cells' = [cells EXCEPT ![refs[r].m_ptr] = w]
            /\ last' = [OCall("ref_value_write", r, "ok", w, 0, 0)
                        EXCEPT !.ref = refs[r].m_ptr]
    /\ UNCHANGED <<opts, refs, fn, tconv>>

\* x = w: the aliased variable is written by its own name.
CellWrite(x, w) ==
    /\ ~halted
    /\ cells' = [cells EXCEPT ![x] = w]
    /\ last' = [OCall("cell_write", x, "ok", w, 0, 0) EXCEPT !.src = x]
    /\ UNCHANGED <<opts, refs, fn, halted, tconv>>

\* ---------------------------------------------------------- specifications

VecInit ==
    /\ vec = <<>>
    /\ cap = 0
    /\ iters = [n \in {"it"} |-> DeadIter]
    /\ last = Call("new", "ok", 0, 0, 0)
    /\ ub = FALSE
    /\ alist = <<>>

LifoIdle ==
    /\ script = <<>>
    /\ popped = <<>>
    /\ phase = "done"

OptIdle ==
    /\ opts = [x \in {"a", "b"} |-> NoOpt]
    /\ cells = [c \in {"x", "y"} |-> 1]
    /\ refs = [r \in {"r", "c"} |-> NullRef(r = "c")]
    /\ fn = [v \in Vals |-> NoResult]
    /\ halted = FALSE

\* The messages handed to expect.
Msgs ==
    {"boom on None", "no value"}

\* A client that honours the drain's exclusive access: while a drain is
\* live the Vec is reached only through it, and the drain is stepped by the
\* loop  for (; it != sentinel; ++it) { ... *it ... }  or abandoned.
VecNext ==
    \/ NoDrain /\ (\E v \in Vals : Push(v) /\ alist' = ListPush(alist, v))
               /\ UNCHANGED <<lifoVars, optVars>>
    \/ NoDrain /\ Pop /\ alist' = ListPop(alist)
               /\ UNCHANGED <<lifoVars, optVars>>
    \/ NoDrain /\ (\E i \in Indices : Get(i))
               /\ UNCHANGED <<lifoVars, optVars, alist>>
    \/ NoDrain /\ (\E i \in Indices : Index(i))
               /\ UNCHANGED <<lifoVars, optVars, alist>>
    \/ NoDrain /\ (\E i \in Indices, w \in Vals :
                      GetWrite(i, w) /\ alist' = ListSet(alist, i, w))
               /\ UNCHANGED <<lifoVars, optVars>>
    \/ NoDrain /\ (\E i \in Indices, w \in Vals :
                      IndexWrite(i, w) /\ alist' = ListSet(alist, i, w))
               /\ UNCHANGED <<lifoVars, optVars>>
    \/ NoDrain /\ (\E i \in Indices, w \in Vals :
                      IterMutWrite(i, w) /\ alist' = ListSet(alist, i, w))
               /\ UNCHANGED <<lifoVars, optVars>>
    \/ NoDrain /\ (\E i \in Indices, v \in Vals :
                      Insert(i, v) /\ alist' = ListInsert(alist, i, v))
               /\ UNCHANGED <<lifoVars, optVars>>
    \/ NoDrain /\ (\E i \in Indices :
                      Remove(i) /\ alist' = ListRemove(alist, i))
               /\ UNCHANGED <<lifoVars, optVars>>
    \/ NoDrain /\ (\E k \in Indices :
                      Truncate(k) /\ alist' = ListTruncate(alist, k))
               /\ UNCHANGED <<lifoVars, optVars>>
    \/ NoDrain /\ Clear /\ alist' = <<>>
               /\ UNCHANGED <<lifoVars, optVars>>
    \/ NoDrain /\ (\E k \in 0..(SizeMod - 1) : Reserve(k))
               /\ UNCHANGED <<lifoVars, optVars, alist>>
    \/ NoDrain /\ ShrinkToFit /\ UNCHANGED <<lifoVars, optVars, alist>>
    \/ NoDrain /\ (\E n \in DOMAIN iters, a, b \in Indices :
                      Drain(n, a, b) /\ alist' = ListDrain(alist, a, b))
               /\ UNCHANGED <<lifoVars, optVars>>
    \/ (\E n \in DOMAIN iters : ~AtSentinel(iters[n]) /\ Deref(n))
          /\ UNCHANGED <<lifoVars, optVars, alist>>
    \/ (\E n \in DOMAIN iters :
          Owning(iters[n]) /\ ~AtSentinel(iters[n]) /\ Advance(n))
          /\ UNCHANGED <<lifoVars, optVars, alist>>
    \/ (\E n \in DOMAIN iters : DropIter(n))
          /\ UNCHANGED <<lifoVars, optVars, alist>>

VecSpecInit ==
    VecInit /\ LifoIdle /\ OptIdle /\ tconv = FALSE

VecSpec ==
    VecSpecInit /\ [][VecNext]_vars

\* The push/pop client: it pushes the values of script onto an empty Vec,
\* pops as many times, recording what each pop returned (0 for None), and
\* pops once more.
LifoInit ==
    /\ VecInit
    /\ OptIdle
    /\ tconv = FALSE
    /\ script \in UNION {[1..n -> Vals] : n \in 0..MaxLen}
    /\ popped = <<>>
    /\ phase = "push"

LifoPush ==
    /\ phase = "push"
    /\ Len(vec) < Len(script)
    /\ Push(script[Len(vec) + 1])
    /\ UNCHANGED <<lifoVars, optVars, alist>>

LifoTurn ==
    /\ phase = "push"
    /\ Len(vec) >= Len(script)
    /\ phase' = "pop"
    /\ UNCHANGED <<vecVars, script, popped, optVars>>

LifoPop ==
    /\ phase = "pop"
    /\ Len(popped) < Len(script)
    /\ Pop
    /\ popped' = Append(popped, last'.val)
    /\ UNCHANGED <<script, phase, optVars, alist>>

LifoLastPop ==
    /\ phase = "pop"
    /\ Len(popped) >= Len(script)
    /\ Pop
    /\ phase' = "done"
    /\ UNCHANGED <<script, popped, optVars, alist>>

LifoNext ==
    \/ LifoPush
    \/ LifoTurn
    \/ LifoPop
    \/ LifoLastPop

LifoSpec ==
    LifoInit /\ [][LifoNext]_vars

\* The owning Option<T>: two objects, constructed, assigned, read, reset and
\* destroyed in any order, for a T that is constructible from an Option<T>&
\* and for one that is not.
OptInit ==
    /\ VecInit
    /\ LifoIdle
    /\ OptIdle
    /\ tconv \in BOOLEAN

OptNext ==
    \/ (\E x \in DOMAIN opts : OptNone(x)) /\ UNCHANGED <<vecVars0, lifoVars>>
    \/ (\E x \in DOMAIN opts, v \in Vals : OptValue(x, v))
          /\ UNCHANGED <<vecVars0, lifoVars>>
    \/ (\E x \in DOMAIN opts, v \in Vals : SomeValue(x, v))
          /\ UNCHANGED <<vecVars0, lifoVars>>
    \/ (\E x, y \in DOMAIN opts : OptCopy(x, y))
          /\ UNCHANGED <<vecVars0, lifoVars>>
    \/ (\E x, y \in DOMAIN opts : OptMove(x, y))
          /\ UNCHANGED <<vecVars0, lifoVars>>
    \/ (\E x \in DOMAIN opts : OptDtor(x)) /\ UNCHANGED <<vecVars0, lifoVars>>
    \/ (\E x, y \in DOMAIN opts : OptAssignCopy(x, y))
          /\ UNCHANGED <<vecVars0, lifoVars>>
    \/ (\E x, y \in DOMAIN opts : OptAssignMove(x, y))
          /\ UNCHANGED <<vecVars0, lifoVars>>
    \/ (\E x \in DOMAIN opts, v \in Vals : OptAssignValue(x, v))
          /\ UNCHANGED <<vecVars0, lifoVars>>
    \/ (\E x \in DOMAIN opts : OptAssignOwnValue(x))
          /\ UNCHANGED <<vec, cap, iters, alist, lifoVars>>
    \/ (\E x \in DOMAIN opts : OptAssignNone(x))
          /\ UNCHANGED <<vecVars0, lifoVars>>
    \/ (\E x \in DOMAIN opts : OptReset(x)) /\ UNCHANGED <<vecVars0, lifoVars>>
    \/ (\E x \in DOMAIN opts : OptValueRead(x))
          /\ UNCHANGED <<vecVars0, lifoVars>>
    \/ (\E x \in DOMAIN opts, w \in Vals : OptValueWrite(x, w))
          /\ UNCHANGED <<vecVars0, lifoVars>>

OptSpec ==
    OptInit /\ [][OptNext]_vars

\* and_then applied to Options of the three shapes in every state they can
\* be in, with every function from held values to results.
AndThenInit ==
    /\ VecInit
    /\ LifoIdle
    /\ opts \in {[x \in {"a", "b"} |-> IF x = "a" THEN o ELSE NoOpt] :
                   o \in {OptionNone(NoOpt)}
                         \cup {OptionValue(NoOpt, v) : v \in Vals}}
    /\ cells \in [{"x", "y"} -> Vals]
    /\ refs \in {[r \in {"r", "c"} |->
                    [const |-> (r = "c"),
                     m_ptr |-> IF r = "r" THEN p ELSE q,
                     alive |-> TRUE]] :
                   p, q \in {"null", "x", "y"}}
    /\ fn \in [Vals -> Results]
    /\ halted = FALSE
    /\ tconv = FALSE

AndThenNext ==
    \/ (\E x \in DOMAIN opts : AndThenRv(x)) /\ UNCHANGED <<vecVars0, lifoVars>>
    \/ (\E x \in DOMAIN opts : AndThenConst(x))
          /\ UNCHANGED <<vecVars0, lifoVars>>
    \/ (\E r \in DOMAIN refs : RefAndThen(r)) /\ UNCHANGED <<vecVars0, lifoVars>>
    \/ (\E r \in DOMAIN refs : CrefAndThen(r))
          /\ UNCHANGED <<vecVars0, lifoVars>>

AndThenSpec ==
    AndThenInit /\ [][AndThenNext]_vars

\* The accessors, applied to Options of the three shapes in every state they
\* can be in.
AccessInit ==
    /\ VecInit
    /\ LifoIdle
    /\ opts \in {[x \in {"a", "b"} |-> IF x = "a" THEN o ELSE NoOpt] :
                   o \in {OptionNone(NoOpt)}
                         \cup {OptionValue(NoOpt, v) : v \in Vals}}
    /\ cells \in [{"x", "y"} -> Vals]
    /\ refs \in {[r \in {"r", "c"} |->
                    IF r = "r" THEN RefTo(FALSE, p) ELSE RefTo(TRUE, q)] :
                   p, q \in {"null", "x", "y"}}
    /\ fn = [v \in Vals |-> NoResult]
    /\ halted = FALSE
    /\ tconv = FALSE

AccessNext ==
    \/ (\E x \in DOMAIN opts : OptValueRead(x)) /\ UNCHANGED <<vecVars0, lifoVars>>
    \/ (\E x \in DOMAIN opts : OptUnwrap(x)) /\ UNCHANGED <<vecVars0, lifoVars>>
    \/ (\E x \in DOMAIN opts, m \in Msgs : OptExpect(x, m))
          /\ UNCHANGED <<vecVars0, lifoVars>>
    \/ (\E x \in DOMAIN opts, d \in Vals : OptUnwrapOr(x, d))
          /\ UNCHANGED <<vecVars0, lifoVars>>
    \/ (\E x \in DOMAIN opts, d \in Vals : OptUnwrapOrRv(x, d))
          /\ UNCHANGED <<vecVars0, lifoVars>>
    \/ (\E r \in DOMAIN refs : RefValue(r)) /\ UNCHANGED <<vecVars0, lifoVars>>
    \/ (\E r \in DOMAIN refs : RefUnwrap(r)) /\ UNCHANGED <<vecVars0, lifoVars>>
    \/ (\E r \in DOMAIN refs, m \in Msgs : RefExpect(r, m))
          /\ UNCHANGED <<vecVars0, lifoVars>>
    \/ (\E r \in DOMAIN refs, d \in DOMAIN cells : RefUnwrapOr(r, d))
          /\ UNCHANGED <<vecVars0, lifoVars>>

AccessSpec ==
    AccessInit /\ [][AccessNext]_vars

\* Every operation of the owning Option that hands out the held value,
\* applied to an Option in every state it can be in.
OwnAccessNext ==
    \/ (\E x \in DOMAIN opts : OptValueRead(x)) /\ UNCHANGED <<vecVars0, lifoVars>>
    \/ (\E x \in DOMAIN opts : OptUnwrap(x)) /\ UNCHANGED <<vecVars0, lifoVars>>
    \/ (\E x \in DOMAIN opts, m \in Msgs : OptExpect(x, m))
          /\ UNCHANGED <<vecVars0, lifoVars>>
    \/ (\E x \in DOMAIN opts : OptDeref(x))
          /\ UNCHANGED <<vec, cap, iters, alist, lifoVars>>
    \/ (\E x \in DOMAIN opts : OptArrow(x))
          /\ UNCHANGED <<vec, cap, iters, alist, lifoVars>>
    \/ (\E x \in DOMAIN opts, d \in Vals : OptUnwrapOr(x, d))
          /\ UNCHANGED <<vecVars0, lifoVars>>
    \/ (\E x \in DOMAIN opts, d \in Vals : OptUnwrapOrRv(x, d))
          /\ UNCHANGED <<vecVars0, lifoVars>>
    \/ (\E x \in DOMAIN opts : AndThenRv(x)) /\ UNCHANGED <<vecVars0, lifoVars>>
    \/ (\E x \in DOMAIN opts : AndThenConst(x))
          /\ UNCHANGED <<vecVars0, lifoVars>>

OwnAccessSpec ==
    AndThenInit /\ [][OwnAccessNext]_vars

\* Option<T&> (r, s) and Option<const T&> (c, d) objects over the variables
\* x and y: made from a variable, copied, assigned, read, written through
\* and ended, while the variables are written by name as well.
RefInit ==
    /\ VecInit
    /\ LifoIdle
    /\ opts = [x \in {"a", "b"} |-> NoOpt]
    /\ cells = [c \in {"x", "y"} |-> 1]
    /\ refs = [r \in {"r", "s", "c", "d"} |-> NoRef(r \in {"c", "d"})]
    /\ fn = [v \in Vals |-> NoResult]
    /\ halted = FALSE
    /\ tconv = FALSE

RefNext ==
    \/ (\E r \in DOMAIN refs : RefNone(r)) /\ UNCHANGED <<vecVars0, lifoVars>>
    \/ (\E r \in DOMAIN refs, x \in DOMAIN cells : RefSome(r, x))
          /\ UNCHANGED <<vecVars0, lifoVars>>
    \/ (\E r, s \in DOMAIN refs : RefCopy(r, s))
          /\ UNCHANGED <<vecVars0, lifoVars>>
    \/ (\E r, s \in DOMAIN refs : RefAssign(r, s))
          /\ UNCHANGED <<vecVars0, lifoVars>>
    \/ (\E r \in DOMAIN refs : RefDtor(r)) /\ UNCHANGED <<vecVars0, lifoVars>>
    \/ (\E r \in DOMAIN refs : RefValue(r)) /\ UNCHANGED <<vecVars0, lifoVars>>
    \/ (\E r \in DOMAIN refs, w \in Vals : RefValueWrite(r, w))
          /\ UNCHANGED <<vecVars0, lifoVars>>
    \/ (\E x \in DOMAIN cells, w \in Vals : CellWrite(x, w))
          /\ UNCHANGED <<vecVars0, lifoVars>>

RefSpec ==
    RefInit /\ [][RefNext]_vars

\* find over the const view of every Vec of up to MaxLen elements, with
\* every predicate on the element values.
FindInit ==
    /\ vec \in UNION {[1..n -> Vals] : n \in 0..MaxLen}
    /\ cap = Len(vec)
    /\ alist = vec
    /\ iters = [n \in {"it"} |-> DeadIter]
    /\ last = Call("new", "ok", 0, 0, 0)
    /\ ub = FALSE
    /\ LifoIdle
    /\ opts = [x \in {"a", "b"} |-> NoOpt]
    /\ cells = [c \in {"x", "y"} |-> 1]
    /\ refs = [r \in {"r", "c"} |-> NullRef(r = "c")]
    /\ fn \in [Vals -> BOOLEAN]
    /\ halted = FALSE
    /\ tconv = FALSE

FindNext ==
    Find /\ UNCHANGED <<lifoVars, optVars, alist>>

FindSpec ==
    FindInit /\ [][FindNext]_vars

\* The Option<T&> and Option<const T&> objects of RefSpec, with unwrap_or
\* called on a variable and on an assignment to a variable.
RefArgNext ==
    \/ RefNext
    \/ (\E r \in DOMAIN refs, d \in DOMAIN cells : RefUnwrapOr(r, d))
          /\ UNCHANGED <<vecVars0, lifoVars>>
    \/ (\E r \in DOMAIN refs, x \in DOMAIN cells, w \in Vals :
            RefUnwrapOrAssign(r, x, w))
          /\ UNCHANGED <<vecVars0, lifoVars>>

RefArgSpec ==
    RefInit /\ [][RefArgNext]_vars

\* The drain loop on every Vec of up to MaxLen elements:
\*   for (auto it = ...drain(a..b) begin; it != sentinel; ++it) { use(*it); }
\* each dereference's yield is recorded in popped; the iterator is
\* destroyed when the loop has ended.
LoopInit ==
    /\ vec \in UNION {[1..n -> Vals] : n \in 0..MaxLen}
    /\ cap = Len(vec)
    /\ alist = vec
    /\ iters = [n \in {"it"} |-> DeadIter]
    /\ last = Call("new", "ok", 0, 0, 0)
    /\ ub = FALSE
    /\ LifoIdle
    /\ OptIdle
    /\ tconv = FALSE

LoopDrain ==
    /\ NoDrain
    /\ \E a, b \in Indices :
          Drain("it", a, b) /\ alist' = ListDrain(alist, a, b)
    /\ popped' = <<>>
    /\ UNCHANGED <<script, phase, optVars>>

LoopDeref ==
    /\ Owning(iters["it"]) /\ ~AtSentinel(iters["it"])
    /\ last.op \in {"drain", "advance"}
    /\ Deref("it")
    /\ popped' = Append(popped, last'.val)
    /\ UNCHANGED <<script, phase, optVars, alist>>

LoopAdvance ==
    /\ Owning(iters["it"]) /\ last.op = "deref"
    /\ Advance("it")
    /\ UNCHANGED <<lifoVars, optVars, alist>>

LoopEnd ==
    /\ Owning(iters["it"]) /\ AtSentinel(iters["it"])
    /\ last.op \in {"drain", "advance"}
    /\ DropIter("it")
    /\ UNCHANGED <<lifoVars, optVars, alist>>

LoopNext ==
    \/ LoopDrain
    \/ LoopDeref
    \/ LoopAdvance
    \/ LoopEnd

LoopSpec ==
    LoopInit /\ [][LoopNext]_vars

\* The loop is a sequential program: it takes its next step when it has one.
LoopFairSpec ==
    LoopInit /\ [][LoopNext]_vars /\ WF_vars(LoopNext)

\* A client that holds a drain's iterator and calls operator* and operator++
\* on it as it likes, in any order and any number of times, on every Vec
\* of up to MaxLen elements; no other call reaches the Vec meanwhile.
StepNext ==
    \/ NoDrain /\ (\E a, b \in Indices :
                      Drain("it", a, b) /\ alist' = ListDrain(alist, a, b))
               /\ UNCHANGED <<lifoVars, optVars>>
    \/ Deref("it") /\ UNCHANGED <<lifoVars, optVars, alist>>
    \/ Owning(iters["it"]) /\ Advance("it")
          /\ UNCHANGED <<lifoVars, optVars, alist>>
    \/ DropIter("it") /\ UNCHANGED <<lifoVars, optVars, alist>>

StepSpec ==
    LoopInit /\ [][StepNext]_vars

\* A client that does not honour the drain's exclusive access: with two
\* iterator objects, it creates drains and destroys them while it calls the
\* Vec's other operations in between, in any order.  Only lengths and
\* indices matter here, so every element it adds is the value 1, and the
\* reference list is left aside.  Nothing is modelled after a call with
\* undefined behaviour.
FreeInit ==
    /\ vec = <<>>
    /\ cap = 0
    /\ iters = [n \in {"it", "jt"} |-> DeadIter]
    /\ last = Call("new", "ok", 0, 0, 0)
    /\ ub = FALSE
    /\ alist = <<>>
    /\ LifoIdle
    /\ OptIdle
    /\ tconv = FALSE

FreeNext ==
    \/ ~ub /\ Push(1) /\ UNCHANGED <<lifoVars, optVars, alist>>
    \/ ~ub /\ Pop /\ UNCHANGED <<lifoVars, optVars, alist>>
    \/ ~ub /\ (\E i \in Indices : Insert(i, 1))
           /\ UNCHANGED <<lifoVars, optVars, alist>>
    \/ ~ub /\ (\E i \in Indices : Remove(i))
           /\ UNCHANGED <<lifoVars, optVars, alist>>
    \/ ~ub /\ (\E k \in Indices : Truncate(k))
           /\ UNCHANGED <<lifoVars, optVars, alist>>
    \/ ~ub /\ Clear /\ UNCHANGED <<lifoVars, optVars, alist>>
    \/ ~ub /\ (\E n \in DOMAIN iters, a, b \in Indices : Drain(n, a, b))
           /\ UNCHANGED <<lifoVars, optVars, alist>>
    \/ ~ub /\ (\E n \in DOMAIN iters : DropIter(n))
           /\ UNCHANGED <<lifoVars, optVars, alist>>

FreeSpec ==
    FreeInit /\ [][FreeNext]_vars

\* Drains whose iterators are moved about: on every Vec of up to MaxLen
\* elements, two iterator objects are made by drain or by move
\* construction, stepped, move-assigned to each other and to themselves,
\* and destroyed, in any order.  Nothing is modelled after a call with
\* undefined behaviour.
MoveInit ==
    /\ vec \in UNION {[1..n -> Vals] : n \in 0..MaxLen}
    /\ cap = Len(vec)
    /\ alist = vec
    /\ iters = [n \in {"it", "jt"} |-> DeadIter]
    /\ last = Call("new", "ok", 0, 0, 0)
    /\ ub = FALSE
    /\ LifoIdle
    /\ OptIdle
    /\ tconv = FALSE

MoveNext ==
    \/ ~ub /\ (\E n \in DOMAIN iters, a, b \in Indices : Drain(n, a, b))
           /\ UNCHANGED <<lifoVars, optVars, alist>>
    \/ ~ub /\ (\E n, m \in DOMAIN iters : MoveCtor(n, m))
           /\ UNCHANGED <<lifoVars, optVars, alist>>
    \/ ~ub /\ (\E n, m \in DOMAIN iters : MoveAssign(n, m))
           /\ UNCHANGED <<lifoVars, optVars, alist>>
    \/ ~ub /\ (\E n \in DOMAIN iters :
                  Owning(iters[n]) /\ ~AtSentinel(iters[n]) /\ Advance(n))
           /\ UNCHANGED <<lifoVars, optVars, alist>>
    \/ ~ub /\ (\E n \in DOMAIN iters : DropIter(n))
           /\ UNCHANGED <<lifoVars, optVars, alist>>

MoveSpec ==
    MoveInit /\ [][MoveNext]_vars

\* ------------------------------------------------------------- properties

\* C1: when the iterator returned by drain([a,b)) on a Vec of length n is
\* destroyed, the Vec has length n - (b - a) and holds the sequence it held
\* at the drain's creation with the indices [a,b) cut out: the elements
\* before a are where they were, those from b on have moved down by b - a.
\* The iterator's position (how much was consumed) plays no part.
C1_DrainExcises ==
    [][\A n \in DOMAIN iters :
          (Owning(iters[n]) /\ ~iters'[n].live) =>
             LET o == iters[n].orig
                 a == iters[n].start_
                 b == iters[n].end_
             IN /\ a <= b /\ b <= Len(o)
                /\ Len(vec') = Len(o) - (b - a)
                /\ \A i \in 0..(Len(vec') - 1) :
                      vec'[i + 1] = IF i < a THEN o[i + 1]
                                    ELSE o[i + 1 + (b - a)]]_vars

\* A drain of two elements was abandoned after one step; one element is left.
C1_Witness ==
    /\ last.op = "drop" /\ last.kind = "erased"
    /\ last.b - last.a = 2 /\ last.val = 1
    /\ Len(vec) = 1

\* C2: drain([a,b)) succeeds exactly when a <= b <= len(); otherwise it
\* reports out_of_range at once, the Vec's elements and capacity are as
\* before and no iterator (hence no deferred excision) comes to exist.
C2_DrainRangeChecked ==
    [][last'.op = "drain" =>
          /\ (last'.kind = "ok") <=>
                (last'.a <= last'.b /\ last'.b <= Len(vec))
          /\ last'.kind # "ok" =>
                /\ last'.kind = "out_of_range"
                /\ vec' = vec /\ cap' = cap /\ iters' = iters
                /\ \A n \in DOMAIN iters' : ~Owning(iters'[n])
          /\ last'.kind = "ok" => \E n \in DOMAIN iters' : Owning(iters'[n])]_vars

\* A drain whose end lies past the length of a non-empty Vec was refused.
C2_Witness ==
    /\ last.op = "drain" /\ last.kind = "out_of_range"
    /\ last.a <= last.b /\ last.b > Len(vec) /\ Len(vec) > 0

\* C3: get(index) is present with the element at index when
\* index < len() and absent when index >= len(); it reports no error and
\* leaves the Vec as it was.
C3_GetBounds ==
    [][last'.op = "get" =>
          /\ last'.a < Len(vec) =>
                last'.kind = "some" /\ last'.val = vec[last'.a + 1]
          /\ last'.a >= Len(vec) => last'.kind = "none"
          /\ vec' = vec /\ cap' = cap /\ iters' = iters /\ ub' = ub]_vars

\* get(len()) on a non-empty Vec was absent.
C3_Witness ==
    /\ last.op = "get" /\ last.kind = "none"
    /\ last.a = Len(vec) /\ Len(vec) > 0

\* C4: after pushing v1..vn onto an empty Vec, n pops return vn..v1 in
\* that order, each taking the length down by one, and leave the Vec empty;
\* a pop of the empty Vec returns None and leaves it empty.
C4_PushPopLifo ==
    /\ phase \in {"pop", "last", "done"} =>
          /\ Len(vec) = Len(script) - Len(popped)
          /\ \A k \in 1..Len(popped) : popped[k] = script[Len(script) - k + 1]
    /\ phase = "done" =>
          /\ Len(popped) = Len(script)
          /\ vec = <<>>
          /\ last.op = "pop" /\ last.kind = "none"

\* Three values were pushed, three popped, and the last pop found nothing.
C4_Witness ==
    /\ phase = "done" /\ Len(script) = 3 /\ Len(popped) = 3
    /\ script[1] # script[3]

\* C5: insert(i, v) with i <= n = len() succeeds; afterwards len() = n + 1,
\* get(i) is present with v, the elements before i are unchanged and each
\* element formerly at j >= i is at j + 1.
C5_InsertShifts ==
    [][(last'.op = "insert" /\ last'.a <= Len(vec)) =>
          LET i == last'.a IN
          /\ last'.kind = "ok"
          /\ Len(vec') = Len(vec) + 1
          /\ i < Len(vec') /\ vec'[i + 1] = last'.b
          /\ \A j \in 0..(i - 1) : vec'[j + 1] = vec[j + 1]
          /\ \A j \in i..(Len(vec) - 1) : vec'[j + 2] = vec[j + 1]]_vars

\* An insert in the middle of a Vec, before a different element.
C5_Witness ==
    /\ last.op = "insert" /\ last.kind = "ok"
    /\ last.a = 1 /\ Len(vec) = 3 /\ vec[2] # vec[3]

\* C6: remove(i) with i < n = len() returns the element that was at i;
\* afterwards len() = n - 1, the elements before i are unchanged and each
\* element formerly at j > i is at j - 1.
C6_RemoveShifts ==
    [][(last'.op = "remove" /\ last'.a < Len(vec)) =>
          LET i == last'.a IN
          /\ last'.kind = "ok"
          /\ last'.val = vec[i + 1]
          /\ Len(vec') = Len(vec) - 1
          /\ \A j \in 0..(i - 1) : vec'[j + 1] = vec[j + 1]
          /\ \A j \in (i + 1)..(Len(vec) - 1) : vec'[j] = vec[j + 1]]_vars

\* A remove at the front left two elements behind.
C6_Witness ==
    /\ last.op = "remove" /\ last.kind = "ok"
    /\ last.a = 0 /\ Len(vec) = 2 /\ vec[1] # vec[2]

\* C7: insert(index, v) with index > len(), remove(index) with
\* index >= len() and operator[](index) with index >= len() each report
\* out_of_range, and the Vec's elements, order and capacity are as before.
C7_OutOfRangeReported ==
    [][(\/ last'.op = "insert" /\ last'.a > Len(vec)
        \/ last'.op = "remove" /\ last'.a >= Len(vec)
        \/ last'.op = "index" /\ last'.a >= Len(vec)) =>
          /\ last'.kind = "out_of_range"
          /\ vec' = vec /\ cap' = cap /\ iters' = iters]_vars

\* operator[](len()) on a non-empty Vec was refused.
C7_Witness ==
    /\ last.op = "index" /\ last.kind = "out_of_range"
    /\ last.a = Len(vec) /\ Len(vec) > 0

\* C8: for every owning Option, its storage holds a constructed T exactly
\* when m_has_value is set; no T is left constructed when its Option is
\* gone or is constructed over (each is destroyed), and destroy_at is never
\* issued on storage that holds no T.
C8_StorageMatchesFlag ==
    \A x \in DOMAIN opts :
        /\ opts[x].fault = "none"
        /\ opts[x].alive => (opts[x].built <=> opts[x].m_has_value)
        /\ ~opts[x].alive => ~opts[x].built

\* A move assignment has left its target holding a value and its source
\* empty.
C8_Witness ==
    /\ last.op = "assign_move"
    /\ opts["a"].alive /\ opts["a"].m_has_value /\ opts["a"].built
    /\ opts["b"].alive /\ ~opts["b"].m_has_value

\* C9: an owning Option constructed from v (by its constructor or by
\* Some(v)) is present and holds v; value() on a present Option returns the
\* held value and leaves the Option as it was, so a second value() returns
\* the same.
C9_ValueRoundTrip ==
    [][/\ last'.op \in {"ctor_value", "some"} =>
             /\ opts'[last'.obj].alive
             /\ opts'[last'.obj].m_has_value
             /\ opts'[last'.obj].val = last'.a
       /\ (last'.op = "value" /\ opts[last'.obj].m_has_value) =>
             /\ last'.kind = "ok"
             /\ last'.val = opts[last'.obj].val
             /\ opts' = opts /\ halted' = halted]_vars

\* value() has returned the value a present Option holds.
C9_Witness ==
    /\ last.op = "value" /\ last.kind = "ok"
    /\ last.val = 2 /\ opts[last.obj].val = 2

\* C10: and_then(f) on an absent Option of any of the three shapes calls f
\* no times and returns None; on a present one it calls f once, with the
\* held value (or referent), and returns what f returns for it.
C10_AndThen ==
    [][last'.op \in {"and_then_rv", "and_then_const",
                     "ref_and_then", "cref_and_then"} =>
          LET own == last'.op \in {"and_then_rv", "and_then_const"}
              present == IF own THEN opts[last'.obj].m_has_value
                         ELSE refs[last'.obj].m_ptr # "null"
              held == IF own THEN opts[last'.obj].val
                      ELSE cells[refs[last'.obj].m_ptr]
          IN IF ~present
             THEN last'.a = 0 /\ last'.kind = "none"
             ELSE /\ last'.a = 1
                  /\ last'.b = held
                  /\ last'.kind = fn[held].kind
                  /\ last'.val = fn[held].val]_vars

\* and_then on an absent Option, with a function that never returns None,
\* returned None without a call.
C10_Witness ==
    /\ last.op = "and_then_rv" /\ last.a = 0 /\ last.kind = "none"
    /\ \A v \in Vals : fn[v].kind = "some"

\* C16: the Vec holds what the reference list holds after the same calls
\* (push, insert, pop, remove, truncate, clear, drain, reserve,
\* shrink_to_fit, get, iteration and writes through them): the same
\* elements in the same order.  While a drain is live its range is still in
\* the Vec; what lies outside the range is the reference list.
C16_RefinesList ==
    IF NoDrain
    THEN vec = alist
    ELSE \A n \in DOMAIN iters :
            Owning(iters[n]) =>
               SubSeq(vec, 1, iters[n].start_)
                  \o SubSeq(vec, iters[n].end_ + 1, Len(vec)) = alist

\* A drain from the middle has been completed and left two different
\* elements, as in the reference list.
C16_Witness ==
    /\ last.op = "drop" /\ last.kind = "erased" /\ last.a = 1 /\ last.b = 2
    /\ Len(alist) = 2 /\ alist[1] # alist[2] /\ vec = alist

\* C17: capacity() >= len() in every state of a Vec.
C17_CapacityCoversLen ==
    cap >= Len(vec)

\* A push onto a full Vec has reallocated it.
C17_Witness ==
    /\ last.op = "push" /\ Len(vec) = 3 /\ cap = Len(vec)

\* C18: when reserve(additional) returns normally, capacity() is at least
\* len() + additional, the sum taken in the integers; when capacity() was
\* that large already, nothing changes.
C18_ReserveEnsures ==
    [][(last'.op = "reserve" /\ last'.kind = "ok") =>
          /\ cap' >= Len(vec) + last'.a
          /\ cap >= Len(vec) + last'.a => (cap' = cap /\ vec' = vec)]_vars

\* C20: for index < len(), a write of w through get(index), operator[] or
\* iter_mut() leaves len() and every other element as they were, and a get
\* of the index then gives w.
C20_WriteFrame ==
    [][(/\ last'.op \in {"get_write", "index_write", "iter_mut_write"}
        /\ last'.a < Len(vec)) =>
          /\ Len(vec') = Len(vec)
          /\ get(vec', last'.a) = [kind |-> "some", val |-> last'.b]
          /\ \A j \in 0..(Len(vec) - 1) :
                j # last'.a => vec'[j + 1] = vec[j + 1]
          /\ cap' = cap]_vars

\* A write through get(1) changed the middle of three elements.
C20_Witness ==
    /\ last.op = "get_write" /\ last.kind = "some" /\ last.a = 1
    /\ Len(vec) = 3 /\ vec[2] = last.b /\ vec[1] # vec[2] /\ vec[3] # vec[2]

\* C12: for a source s other than the target t, copy construction and copy
\* assignment leave t with s's presence and value and s as it was; move
\* construction and move assignment leave t with s's prior presence and
\* value and s absent; an absent s gives an absent t holding no T, and its
\* storage is not read.
C12_CopyMoveTransfers ==
    [][(/\ last'.op \in {"ctor_copy", "ctor_move", "assign_copy", "assign_move"}
        /\ last'.src # last'.obj) =>
          LET t == last'.obj
              s == last'.src
          IN /\ opts'[t].alive
             /\ opts'[t].m_has_value = opts[s].m_has_value
             /\ opts[s].m_has_value => opts'[t].val = opts[s].val
             /\ ~opts[s].m_has_value => (~opts'[t].built /\ last'.a = 0)
             /\ opts'[t].fault = "none"
             /\ IF last'.op \in {"ctor_move", "assign_move"}
                THEN opts'[s].alive /\ ~opts'[s].m_has_value
                ELSE opts'[s] = opts[s]]_vars

\* C13: x = v leaves x present with the value v, whatever x held; a value
\* held before is destroyed once, before the new one is constructed.
C13_AssignValuePresent ==
    [][(/\ last'.op \in {"assign_value", "assign_own_value"}
        /\ last'.kind # "panic") =>
          LET x == last'.obj
          IN /\ opts'[x].m_has_value /\ opts'[x].built
             /\ opts'[x].val = last'.a
             /\ opts'[x].fault = "none"]_vars

\* C14: reset() leaves an Option absent with no T in its storage; it
\* destroys the held T once when there was one and nothing when there was
\* none; a second reset() right after the first changes nothing and
\* destroys nothing.
C14_ResetIdempotent ==
    [][last'.op = "reset" =>
          LET x == last'.obj
          IN /\ opts'[x].alive /\ ~opts'[x].m_has_value /\ ~opts'[x].built
             /\ opts'[x].fault = "none"
             /\ last'.a = (IF opts[x].m_has_value THEN 1 ELSE 0)
             /\ \A y \in DOMAIN opts : y # x => opts'[y] = opts[y]
             /\ (last.op = "reset" /\ last.obj = x) =>
                   (opts' = opts /\ last'.a = 0)]_vars

\* A reset of a present Option destroyed its T and left it absent, beside
\* another Option that still holds a value.
C14_Witness ==
    /\ last.op = "reset" /\ last.a = 1
    /\ opts[last.obj].alive /\ ~opts[last.obj].m_has_value
    /\ \E y \in DOMAIN opts : y # last.obj /\ opts[y].m_has_value

\* C11: unwrap_or(d) on an absent Option of any of the three shapes gives
\* d, on a present one the held value (for a reference shape: the variable
\* it aliases), and it never panics.
C11_UnwrapOr ==
    [][last'.op \in {"unwrap_or", "unwrap_or_rv", "ref_unwrap_or"} =>
          /\ last'.kind = "ok" /\ ~halted'
          /\ IF last'.op = "ref_unwrap_or"
             THEN LET p == refs[last'.obj].m_ptr
                  IN /\ last'.ref = (IF p = "null" THEN last'.src ELSE p)
                     /\ last'.val = cells[last'.ref]
                     /\ cells' = cells /\ refs' = refs
             ELSE last'.val = (IF opts[last'.obj].m_has_value
                               THEN opts[last'.obj].val
                               ELSE last'.a)]_vars

\* unwrap_or on an absent owning Option gave the default, 2.
C11_Witness ==
    /\ last.op = "unwrap_or" /\ last.a = 2 /\ last.val = 2
    /\ ~opts[last.obj].m_has_value

\* C15: value() and unwrap() on an absent Option of any of the three shapes
\* end in a panic and return nothing, expect(msg) on an absent one panics
\* with msg, and nothing runs after a panic; on a present Option each gives
\* the held value (the aliased variable) and does not panic.
C15_AbsentPanics ==
    [][/\ ~halted
       /\ last'.op \in {"value", "unwrap", "expect",
                        "ref_value", "ref_unwrap", "ref_expect"} =>
             LET own == last'.op \in {"value", "unwrap", "expect"}
                 present == IF own THEN opts[last'.obj].m_has_value
                            ELSE refs[last'.obj].m_ptr # "null"
                 held == IF own THEN opts[last'.obj].val
                         ELSE cells[refs[last'.obj].m_ptr]
             IN IF present
                THEN last'.kind = "ok" /\ last'.val = held /\ ~halted'
                ELSE /\ last'.kind = "panic" /\ halted'
                     /\ last'.op \in {"expect", "ref_expect"} =>
                           last'.msg = last'.src]_vars

\* expect on an absent Option<T&> has ended the program with the caller's
\* message.
C15_Witness ==
    /\ last.op = "ref_expect" /\ last.kind = "panic" /\ halted
    /\ last.msg = "boom on None" /\ refs[last.obj].m_ptr = "null"

\* C19: an Option<T&> or Option<const T&> made from the variable x aliases
\* x, and so does a copy of it (by construction or assignment), the source
\* staying as it was; a write through value() lands in x and is what
\* value() of every Option aliasing x then gives; so is a write to x by
\* name; making, copying, assigning and ending an Option leave every
\* variable as it was.
C19_RefAliases ==
    [][/\ last'.op = "ref_some" =>
             (refs'[last'.obj].m_ptr = last'.src /\ cells' = cells)
       /\ last'.op \in {"ref_copy", "ref_assign"} =>
             /\ refs'[last'.obj].m_ptr = refs[last'.src].m_ptr
             /\ refs'[last'.src].m_ptr = refs[last'.src].m_ptr
             /\ cells' = cells
       /\ last'.op = "ref_dtor" =>
             /\ cells' = cells
             /\ \A q \in DOMAIN refs \ {last'.obj} : refs'[q] = refs[q]
       /\ (last'.op = "ref_value" /\ last'.kind = "ok") =>
             last'.val = cells[refs[last'.obj].m_ptr]
       /\ (last'.op = "ref_value_write" /\ last'.kind = "ok") =>
             LET x == refs[last'.obj].m_ptr
             IN /\ cells' = [cells EXCEPT ![x] = last'.a]
                /\ refs' = refs
                /\ \A q \in DOMAIN refs :
                      (refs[q].alive /\ refs[q].m_ptr = x) =>
                         ref_value(refs'[q], cells').val = last'.a
       /\ last'.op = "cell_write" =>
             \A q \in DOMAIN refs :
                (refs[q].alive /\ refs[q].m_ptr = last'.src) =>
                   ref_value(refs'[q], cells').val = last'.a]_vars

\* A write of 2 through one Option<T&> is seen in the variable and through
\* another Option<T&> and an Option<const T&> that alias it.
C19_Witness ==
    /\ last.op = "ref_value_write" /\ last.kind = "ok" /\ last.a = 2
    /\ last.obj = "s" /\ refs["r"].alive /\ refs["c"].alive
    /\ refs["r"].m_ptr = "x" /\ refs["s"].m_ptr = "x" /\ refs["c"].m_ptr = "x"
    /\ cells["x"] = 2 /\ cells["y"] = 1

\* C21: truncate(k) on a Vec of length n leaves it as it was when k >= n;
\* when k < n the length becomes k and the elements at the indices below k
\* are the former ones, in the same order.
C21_TruncateKeepsPrefix ==
    [][last'.op = "truncate" =>
          LET k == last'.a
              n == Len(vec)
          IN /\ last'.kind = "ok" /\ last'.b = n
             /\ k >= n => vec' = vec
             /\ k < n =>
                   /\ Len(vec') = k
                   /\ \A i \in 0..(k - 1) : vec'[i + 1] = vec[i + 1]]_vars

\* truncate(2) cut a Vec of three elements down to two different ones.
C21_Witness ==
    /\ last.op = "truncate" /\ last.a = 2 /\ last.b = 3
    /\ Len(vec) = 2 /\ vec[1] # vec[2]

\* C22: find(range, pred) is present with the first element, in iteration
\* order, that pred holds of, and absent exactly when pred holds of no
\* element; pred is applied to the elements up to the first match and to
\* none after it; the range is left as it was.
C22_FindFirst ==
    [][last'.op = "find" =>
          LET n == last'.a
          IN /\ last'.kind \in {"some", "none"}
             /\ (last'.kind = "none") <=>
                   (\A i \in 1..Len(vec) : ~fn[vec[i]])
             /\ last'.kind = "none" => n = Len(vec)
             /\ last'.kind = "some" =>
                   /\ n \in 1..Len(vec)
                   /\ fn[vec[n]] /\ last'.val = vec[n]
                   /\ \A i \in 1..(n - 1) : ~fn[vec[i]]
             /\ vec' = vec]_vars

\* find gave the second of three elements after two applications of a
\* predicate that the third satisfies as well.
C22_Witness ==
    /\ last.op = "find" /\ last.kind = "some" /\ last.a = 2
    /\ Len(vec) = 3 /\ last.val = vec[2] /\ ~fn[vec[1]] /\ fn[vec[3]]

\* C27: capacity() changes only in push, insert, reserve and shrink_to_fit;
\* pop, remove, truncate, clear, get, operator[], the writes through get,
\* operator[] and iter_mut(), drain, the steps of its iterator and its
\* deferred excision leave capacity() as it was.
C27_CapacityFrame ==
    [][/\ cap' # cap =>
             last'.op \in {"push", "insert", "reserve", "shrink_to_fit"}
       /\ last'.op \in {"pop", "remove", "truncate", "clear", "get", "index",
                        "get_write", "index_write", "iter_mut_write",
                        "drain", "deref", "advance", "drop"} =>
             cap' = cap]_vars

\* A drain has cut two of three elements out of a Vec whose capacity is
\* still three.
C27_Witness ==
    /\ last.op = "drop" /\ last.kind = "erased" /\ last.b - last.a = 2
    /\ Len(vec) = 1 /\ cap = 3

\* C24: no accessor of the owning Option goes on silently on an absent
\* Option: value, unwrap, expect, operator*, operator->, unwrap_or and
\* and_then each either panic, or give the caller's default, or give an
\* absent result; none hands out a reference or pointer into the storage
\* while has_value() is false, and none has undefined behaviour.
C24_NoSilentAccess ==
    [][(/\ last'.op \in {"value", "unwrap", "expect", "deref", "arrow",
                         "unwrap_or", "unwrap_or_rv",
                         "and_then_rv", "and_then_const"}
        /\ ~halted
        /\ ~opts[last'.obj].m_has_value) =>
          /\ \/ last'.kind = "panic" /\ halted'
             \/ /\ last'.op \in {"unwrap_or", "unwrap_or_rv"}
                /\ last'.kind = "ok" /\ last'.val = last'.a
             \/ /\ last'.op \in {"and_then_rv", "and_then_const"}
                /\ last'.kind = "none" /\ last'.a = 0
          /\ last'.ref # "m_storage"
          /\ ub' = ub]_vars

\* C26: unwrap_or on a present Option<T&> gives the referent and does not
\* assign the default: the call expression, also when its argument is an
\* assignment to the referent as in opt_ref.unwrap_or(ref_target = 70),
\* yields the value the referent had before the expression was evaluated
\* and leaves the referent and the Option as they were.
C26_UnwrapOrKeepsReferent ==
    [][(/\ last'.op \in {"ref_unwrap_or", "ref_unwrap_or_assign"}
        /\ refs[last'.obj].m_ptr # "null") =>
          LET x == refs[last'.obj].m_ptr
          IN /\ last'.ref = x
             /\ last'.val = cells[x]
             /\ cells'[x] = cells[x]
             /\ refs' = refs]_vars

\* C30: x = x and x = std::move(x) leave x's flag and held value as they
\* were and construct and destroy nothing, for a present and for an absent
\* x (and leave every other Option alone).
C30_SelfAssignNoOp ==
    [][(/\ last'.op \in {"assign_copy", "assign_move"}
        /\ last'.src = last'.obj) =>
          /\ opts' = opts
          /\ last'.a = 0 /\ last'.b = 0]_vars

\* C25: the loop that dereferences and pre-increments a fresh drain on
\* [a,b) while it differs from its sentinel yields the elements that were
\* at the indices a, a+1, ..., b-1 at the drain's creation, in that order
\* and each once; the iterator equals the sentinel after exactly b - a
\* advances (at once when a = b); and the loop always gets there.
C25_DrainLoopYields ==
    /\ [](\A n \in DOMAIN iters :
            Owning(iters[n]) =>
               LET it == iters[n]
                   done == it.index_ - it.start_
               IN /\ it.start_ <= it.index_ /\ it.index_ <= it.end_
                  /\ AtSentinel(it) <=> (done = it.end_ - it.start_)
                  /\ popped = SubSeq(it.orig, it.start_ + 1,
                                     IF last.op = "deref"
                                     THEN it.index_ + 1 ELSE it.index_)
                  /\ AtSentinel(it) =>
                        popped = SubSeq(it.orig, it.start_ + 1, it.end_))
    /\ [][/\ last'.op = "deref" => last'.kind = "ok"
          /\ last'.op = "advance" =>
                \A n \in DOMAIN iters :
                   iters'[n].index_ \in {iters[n].index_,
                                         iters[n].index_ + 1}]_vars
    /\ ((\E n \in DOMAIN iters : Owning(iters[n]))
           ~> (\E n \in DOMAIN iters : AtSentinel(iters[n])))

\* The loop over the drain of the last two of three elements has reached
\* the sentinel, having yielded two different elements.
C25_Witness ==
    /\ last.op = "advance" /\ AtSentinel(iters["it"])
    /\ iters["it"].start_ = 1 /\ iters["it"].end_ = 3
    /\ Len(popped) = 2 /\ popped[1] # popped[2]
    /\ popped = SubSeq(iters["it"].orig, 2, 3)

\* C29: whatever operator* and operator++ calls a client makes on the
\* iterator of a drain on [start,end), its index stays within
\* start <= index <= end, and every dereference that yields an element
\* reads an index in [start,end).
C29_IndexWithinRange ==
    /\ [](\A n \in DOMAIN iters :
            Owning(iters[n]) =>
               /\ iters[n].start_ <= iters[n].index_
               /\ iters[n].index_ <= iters[n].end_)
    /\ [][\A n \in DOMAIN iters :
             (Owning(iters[n]) /\ last'.op = "deref" /\ last'.kind = "ok") =>
                (iters[n].start_ <= last'.a /\ last'.a < iters[n].end_)]_vars

\* C23: while a drain on [start,end) is live, start <= end <= len() of its
\* Vec holds, whatever other operations of the Vec (push, pop, insert,
\* remove, truncate, clear, a second drain) are called between its creation
\* and its destruction; so no deferred excision removes an index that is out
\* of bounds.
C23_DrainExclusive ==
    /\ \A n \in DOMAIN iters :
          Owning(iters[n]) =>
             /\ iters[n].start_ <= iters[n].end_
             /\ iters[n].end_ <= Len(vec)
    /\ ~ub

\* C28: however a drain's iterator is move-constructed and move-assigned,
\* its range is cut out of the Vec once.  A move leaves the target owning
\* the source's drain (range and position) exactly when the source owned
\* it, and the source owning nothing, so the owners never grow in number
\* but by drain(); a move construction and a self-assignment leave the Vec
\* alone; destroying a moved-from iterator removes nothing; destroying an
\* owner removes its range; move-assigning over an owner of another drain
\* first removes that drain's range, over a non-owner nothing.
C28_ExcisedOnce ==
    [][/\ last'.op \in {"move_ctor", "move_assign"} =>
             LET t == last'.obj
                 m == last'.src
             IN IF t = m
                THEN vec' = vec /\ iters' = iters /\ last'.kind = "self"
                ELSE /\ Owning(iters'[t]) = Owning(iters[m])
                     /\ ~Owning(iters'[m])
                     /\ iters'[t].start_ = iters[m].start_
                     /\ iters'[t].index_ = iters[m].index_
                     /\ iters'[t].end_ = iters[m].end_
                     /\ last'.op = "move_ctor" => vec' = vec
                     /\ (last'.op = "move_assign" /\ ~Owning(iters[t])) =>
                           vec' = vec
                     /\ (/\ last'.op = "move_assign" /\ Owning(iters[t])
                         /\ iters[t].end_ <= Len(vec)) =>
                           /\ last'.kind = "erased"
                           /\ vec' = SubSeq(vec, 1, iters[t].start_)
                                        \o SubSeq(vec, iters[t].end_ + 1,
                                                  Len(vec))
       /\ last'.op = "drop" =>
             \A n \in DOMAIN iters :
                (iters[n].live /\ ~iters'[n].live) =>
                   /\ ~Owning(iters[n]) =>
                         (vec' = vec /\ last'.kind = "moved_from")
                   /\ (Owning(iters[n]) /\ iters[n].end_ <= Len(vec)) =>
                         /\ last'.kind = "erased"
                         /\ vec' = SubSeq(vec, 1, iters[n].start_)
                                      \o SubSeq(vec, iters[n].end_ + 1,
                                                Len(vec))
       /\ last'.op # "drain" =>
             Cardinality({n \in DOMAIN iters : Owning(iters'[n])})
                <= Cardinality({n \in DOMAIN iters : Owning(iters[n])})]_vars

\* An iterator that owned a drain of one element was move-assigned the
\* iterator of another drain: its own range has been cut out, it owns the
\* other drain now, and the source owns nothing.
C28_Witness ==
    /\ last.op = "move_assign" /\ last.kind = "erased"
    /\ last.b - last.a = 1 /\ Len(vec) = 2
    /\ Owning(iters[last.obj])
    /\ iters[last.src].live /\ ~Owning(iters[last.src])
    /\ iters[last.obj].end_ - iters[last.obj].start_ = 1

====
